---- MODULE Spec2Model ----
(***************************************************************************)
(* Model of deepface_service.py: the face-count cache (count_faces), the   *)
(* absorbed comparison (compare_faces) and the three phases of             *)
(* EnhancedFamilyGrouper.group_photos, plus concurrent /analyze requests   *)
(* on the shared process-wide grouper.                                     *)
(*                                                                         *)
(* Distances are in tenths (0.6 is 6).  A Python dict is an insertion-     *)
(* ordered sequence of [id, photos] records; list(set(..)) is any ordering *)
(* of the set.  The analyzer (DeepFace) is the environment: a detection    *)
(* either throws or returns a count, a verification either throws or       *)
(* returns the pair's distance.                                            *)
(***************************************************************************)
EXTENDS Integers, Sequences, FiniteSets, TLC

\* ---- bounds ----
MaxLen == 4
MaxFaces == 2
MaxFail == 1
NumThreads == 2

\* ---- program constants ----
Threshold == 6
Inf == 1000000

\* photo identifiers are opaque strings compared by equality (lines 15, 109, 114)
PhotoIds == 1..MaxLen
Threads == 1..NumThreads
DistVals == {Threshold - 1, Threshold, Threshold + 1}

VARIABLES
  photos,               \* argument of group_photos
  face_cache,           \* self.face_cache
  dist,                 \* distances the analyzer has produced so far, per pair
  pc,                   \* position in group_photos
  individual_photos,    \* line 76
  family_photos,        \* line 99
  groups,               \* the dict, as a sequence in insertion order
  current_group,        \* next id
  i,                    \* index of the comprehension at line 76 / 99
  j,                    \* index into individual_photos (line 79)
  gi, mi,               \* scan position of lines 82-83
  k,                    \* index into family_photos (line 102)
  m,                    \* index into all_photos (line 47)
  matching_individuals, \* line 45
  result,               \* value returned at line 124
  everLive,             \* history: every id that was ever a key of groups
  detCalls,             \* history: DeepFace.extract_faces calls per photo
  retVals,              \* history: values count_faces returned per photo
  fails,                \* history: analyzer exceptions so far
  scanned,              \* history: comparisons made for the current individual
  lastOp,               \* history: what the last step did
  tpc, tkey, tret,      \* concurrent /analyze requests: position, photo, answer
  exists,               \* the photos os.path.exists finds (line 150)
  status,               \* HTTP status of the /group response, 0 while there is none
  vx,                   \* index of the loop of line 149
  group_metadata,       \* line 157
  gx, ps, mx,           \* group, dict entry (lines 161, 162, 164) and member being counted
  acc,                  \* the three sums of the group being described
  reliable,             \* the analyzer never throws in this behaviour
  run,                  \* 1 in the first group_photos call, 2 in the second
  firstPhotos,          \* history: the list the first call was given
  firstPartition        \* history: the member sets the first call returned

vars == <<photos, face_cache, dist, pc, individual_photos, family_photos,
          groups, current_group, i, j, gi, mi, k, m, matching_individuals,
          result, everLive, detCalls, retVals, fails, scanned, lastOp,
          tpc, tkey, tret, exists, status, vx, group_metadata, gx, ps, mx, acc,
          reliable, run, firstPhotos, firstPartition>>

grouperVars == <<photos, dist, pc, individual_photos, family_photos,
          groups, current_group, i, j, gi, mi, k, m, matching_individuals,
          result, everLive, scanned, lastOp>>

threadVars == <<tpc, tkey, tret>>

routeVars == <<exists, status, vx, group_metadata, gx, ps, mx, acc>>

callVars == <<reliable, run, firstPhotos, firstPartition>>

\* ---- helpers ----
Range(s) == {s[x] : x \in DOMAIN s}

\* the non-empty photo lists of length at most n, identifiers named by order of
\* first appearance
PhotoLists(n) ==
  {s \in UNION {[1..l -> PhotoIds] : l \in 1..n} :
     \A x \in DOMAIN s :
        (\E y \in 1..(x - 1) : s[y] = s[x])
          \/ s[x] = Cardinality({s[z] : z \in 1..(x - 1)}) + 1}

\* list(a_set): some ordering of the set, each element once
ListsOfSet(S) == {s \in [1..Cardinality(S) -> S] : Range(s) = S}

GroupIds(g) == {g[x].id : x \in DOMAIN g}

IndexOf(g, id) == CHOOSE x \in DOMAIN g : g[x].id = id

GroupsOf(g, p) == {g[x].id : x \in {y \in DOMAIN g : p \in Range(g[y].photos)}}

NoOp == [op |-> "init", photo |-> 0, other |-> 0, gid |-> -1,
         called |-> FALSE, failed |-> FALSE, ret |-> 0,
         cmpCalled |-> FALSE, cmpFailed |-> FALSE, d |-> 0]

\* ---- the analyzer ----
\* DeepFace.extract_faces: throws, or returns a list of faces
DetectOutcomes ==
  {[ok |-> TRUE, n |-> c] : c \in 0..MaxFaces}
    \cup (IF ~reliable /\ fails < MaxFail THEN {[ok |-> FALSE, n |-> 0]} ELSE {})

\* DeepFace.verify: throws, or returns the distance of the pair; the same
\* pair has the same distance at every call, an image is at distance 0 of itself
VerifyOutcomes(a, b) ==
  (IF {a, b} \in DOMAIN dist THEN {[ok |-> TRUE, d |-> dist[{a, b}]]}
   ELSE IF a = b THEN {[ok |-> TRUE, d |-> 0]}
   ELSE {[ok |-> TRUE, d |-> v] : v \in DistVals})
    \cup (IF ~reliable /\ fails < MaxFail THEN {[ok |-> FALSE, d |-> Inf]} ELSE {})

\* count_faces with the except branch answering 1 instead of 0
count_faces_FailIsOne(cache, p, o) ==
  IF p \in DOMAIN cache
  THEN [ret |-> cache[p], cache |-> cache, called |-> FALSE, failed |-> FALSE]
  ELSE IF o.ok
       THEN [ret |-> o.n, cache |-> cache @@ (p :> o.n),
             called |-> TRUE, failed |-> FALSE]
       ELSE [ret |-> 1, cache |-> cache, called |-> TRUE, failed |-> TRUE]

\* ---- count_faces, lines 14-25 ----
count_faces(cache, p, o) ==
  IF p \in DOMAIN cache
  THEN [ret |-> cache[p], cache |-> cache, called |-> FALSE, failed |-> FALSE]
  ELSE IF o.ok
       THEN [ret |-> o.n, cache |-> cache @@ (p :> o.n),
             called |-> TRUE, failed |-> FALSE]
       ELSE [ret |-> 0, cache |-> cache, called |-> TRUE, failed |-> TRUE]

\* the filter of line 76
individual_filter(count) == count = 1

\* the filter of line 99 keeping every photo that is not an individual
family_filter_NotOne(count) == count # 1

\* the filter of line 99
family_filter(count) == count > 1

\* the test of line 48 letting every photo with a face through
eligible_AnyFace(count) == count >= 1

\* the test of line 48: only individual photos are compared
eligible(count) == count = 1

\* is_family_photo, lines 27-28
is_family_photo(count) == count > 1

\* compare_faces with the except branch answering 0 instead of infinity
compare_faces_FailIsZero(o) == IF o.ok THEN o.d ELSE 0

\* ---- compare_faces, lines 30-41 ----
compare_faces(o) == IF o.ok THEN o.d ELSE Inf

\* the test written with < instead of <=
Matches_Strict(d) == d < Threshold

\* the test of lines 49 and 84
Matches(d) == d <= Threshold

\* bookkeeping of one count_faces call
Counted(p, r) ==
  /\ face_cache' = r.cache
  /\ detCalls' = [detCalls EXCEPT ![p] = @ + (IF r.called THEN 1 ELSE 0)]
  /\ retVals' = [retVals EXCEPT ![p] = @ \cup {r.ret}]

\* bookkeeping of one DeepFace.verify call
Verified(a, b, o) ==
  dist' = IF o.ok /\ {a, b} \notin DOMAIN dist THEN dist @@ ({a, b} :> o.d) ELSE dist

NoSums == [family_photos |-> 0, individual_photos |-> 0, members |-> 0]

\* the state a group_photos call starts from, lines 72-73
CallEntry ==
  /\ individual_photos = <<>>
  /\ family_photos = <<>>
  /\ groups = <<>>
  /\ current_group = 0
  /\ i = 1 /\ j = 1 /\ gi = 1 /\ mi = 1 /\ k = 1 /\ m = 1
  /\ matching_individuals = {}
  /\ result = <<>>
  /\ everLive = {}
  /\ scanned = <<>>
  /\ lastOp = NoOp

\* the process after construction (lines 8-11, 127-128), no request served yet
ProcessStart ==
  /\ face_cache = <<>>
  /\ dist = <<>>
  /\ detCalls = [p \in PhotoIds |-> 0]
  /\ retVals = [p \in PhotoIds |-> {}]
  /\ fails = 0
  /\ tpc = [t \in Threads |-> "idle"]
  /\ tkey = [t \in Threads |-> 0]
  /\ tret = [t \in Threads |-> 0]
  /\ status = 0 /\ vx = 1
  /\ group_metadata = <<>>
  /\ gx = 1 /\ ps = 1 /\ mx = 1
  /\ acc = NoSums
  /\ run = 1
  /\ firstPhotos = <<>>
  /\ firstPartition = {}

Init ==
  /\ photos \in PhotoLists(MaxLen)
  /\ exists = Range(photos)
  /\ reliable = FALSE
  /\ pc = "classify_individuals"
  /\ ProcessStart
  /\ CallEntry

\* ---- phase 1, line 76: one iteration of the comprehension ----
MoreToClassify == pc = "classify_individuals" /\ i <= Len(photos)

ClassifyIndividual ==
  /\ MoreToClassify
  /\ \E o \in DetectOutcomes :
       LET p == photos[i]
           r == count_faces(face_cache, p, o)
       IN /\ Counted(p, r)
          /\ fails' = fails + (IF r.failed THEN 1 ELSE 0)
          /\ individual_photos' = IF individual_filter(r.ret) THEN Append(individual_photos, p)
                                  ELSE individual_photos
          /\ lastOp' = [NoOp EXCEPT !.op = "classify_individual", !.photo = p,
                          !.called = r.called, !.failed = r.failed, !.ret = r.ret]
  /\ i' = i + 1
  /\ UNCHANGED <<photos, dist, pc, family_photos, groups, current_group, j, gi, mi,
                 k, m, matching_individuals, result, everLive, scanned, threadVars, routeVars, callVars>>

\* line 79: the loop over individual_photos starts
ClassifiedAll == pc = "classify_individuals" /\ i > Len(photos)

StartCluster ==
  /\ ClassifiedAll
  /\ pc' = "cluster" /\ j' = 1 /\ gi' = 1 /\ mi' = 1
  /\ lastOp' = [NoOp EXCEPT !.op = "start_cluster"]
  /\ UNCHANGED <<photos, face_cache, dist, individual_photos, family_photos, groups,
                 current_group, i, k, m, matching_individuals, result, everLive,
                 detCalls, retVals, fails, scanned, threadVars, routeVars, callVars>>

\* the scan leaving a group after its first member
NextScan_SkipGroup(g, x, y) == <<x + 1, 1>>

\* the position after a comparison that did not match, lines 82-83
NextScan(g, x, y) == IF y < Len(g[x].photos) THEN <<x, y + 1>> ELSE <<x + 1, 1>>

\* ---- phase 2, lines 82-92: one comparison, and the append when it matches ----
MoreToScan == pc = "cluster" /\ j <= Len(individual_photos) /\ gi <= Len(groups)

CompareIndividual ==
  /\ MoreToScan
  /\ LET photo == individual_photos[j]
         group_photo == groups[gi].photos[mi]
     IN \E o \in VerifyOutcomes(photo, group_photo) :
          LET d == compare_faces(o)
          IN /\ Verified(photo, group_photo, o)
             /\ fails' = fails + (IF o.ok THEN 0 ELSE 1)
             /\ lastOp' = [NoOp EXCEPT !.op = "compare_individual", !.photo = photo,
                             !.other = group_photo, !.gid = groups[gi].id,
                             !.cmpCalled = TRUE, !.cmpFailed = ~o.ok, !.d = d]
             /\ IF Matches(d)
                THEN /\ groups' = [groups EXCEPT ![gi].photos = Append(@, photo)]
                     /\ j' = j + 1 /\ gi' = 1 /\ mi' = 1
                     /\ scanned' = <<>>
                ELSE /\ groups' = groups
                     /\ j' = j
                     /\ gi' = NextScan(groups, gi, mi)[1]
                     /\ mi' = NextScan(groups, gi, mi)[2]
                     /\ scanned' = Append(scanned,
                            [gid |-> groups[gi].id, member |-> group_photo, d |-> d])
  /\ everLive' = everLive \cup GroupIds(groups')
  /\ UNCHANGED <<photos, face_cache, pc, individual_photos, family_photos,
                 current_group, i, k, m, matching_individuals, result,
                 detCalls, retVals, threadVars, routeVars, callVars>>

\* a new group keyed by the size of the dict instead of the counter
NewGroup_LenId(g, id, p) == Append(g, [id |-> Len(g), photos |-> <<p>>])

\* the counter left as it is
NextGroupId_Same(c) == c

\* the id given to a new group and the counter after it, lines 94-96 and 120-122
NewGroup(g, id, p) == Append(g, [id |-> id, photos |-> <<p>>])
NextGroupId(c) == c + 1

\* ---- phase 2, lines 93-96: no group matched ----
ScanOver == pc = "cluster" /\ j <= Len(individual_photos) /\ gi > Len(groups)

CreateIndividualGroup ==
  /\ ScanOver
  /\ groups' = NewGroup(groups, current_group, individual_photos[j])
  /\ current_group' = NextGroupId(current_group)
  /\ j' = j + 1 /\ gi' = 1 /\ mi' = 1
  /\ scanned' = <<>>
  /\ everLive' = everLive \cup GroupIds(groups')
  /\ lastOp' = [NoOp EXCEPT !.op = "create_individual", !.photo = individual_photos[j],
                  !.gid = current_group]
  /\ UNCHANGED <<photos, face_cache, dist, pc, individual_photos, family_photos,
                 i, k, m, matching_individuals, result, detCalls, retVals, fails,
                 threadVars, routeVars, callVars>>

\* line 99: the second comprehension starts
ClusteredAll == pc = "cluster" /\ j > Len(individual_photos)

FinishCluster ==
  /\ ClusteredAll
  /\ pc' = "classify_families" /\ i' = 1
  /\ lastOp' = [NoOp EXCEPT !.op = "finish_cluster"]
  /\ UNCHANGED <<photos, face_cache, dist, individual_photos, family_photos, groups,
                 current_group, j, gi, mi, k, m, matching_individuals, result,
                 everLive, detCalls, retVals, fails, scanned, threadVars, routeVars, callVars>>

\* ---- line 99: one iteration of the comprehension ----
MoreFamiliesToClassify == pc = "classify_families" /\ i <= Len(photos)

ClassifyFamily ==
  /\ MoreFamiliesToClassify
  /\ \E o \in DetectOutcomes :
       LET p == photos[i]
           r == count_faces(face_cache, p, o)
       IN /\ Counted(p, r)
          /\ fails' = fails + (IF r.failed THEN 1 ELSE 0)
          /\ family_photos' = IF family_filter(r.ret) THEN Append(family_photos, p)
                              ELSE family_photos
          /\ lastOp' = [NoOp EXCEPT !.op = "classify_family", !.photo = p,
                          !.called = r.called, !.failed = r.failed, !.ret = r.ret]
  /\ i' = i + 1
  /\ UNCHANGED <<photos, dist, pc, individual_photos, groups, current_group, j, gi, mi,
                 k, m, matching_individuals, result, everLive, scanned, threadVars, routeVars, callVars>>

\* line 102: the loop over family_photos starts
FamiliesClassified == pc = "classify_families" /\ i > Len(photos)

StartBridge ==
  /\ FamiliesClassified
  /\ pc' = "bridge" /\ k' = 1 /\ m' = 1 /\ matching_individuals' = {}
  /\ lastOp' = [NoOp EXCEPT !.op = "start_bridge"]
  /\ UNCHANGED <<photos, face_cache, dist, individual_photos, family_photos, groups,
                 current_group, i, j, gi, mi, result, everLive,
                 detCalls, retVals, fails, scanned, threadVars, routeVars, callVars>>

\* ---- find_matching_individuals, lines 47-51: one iteration ----
MoreToMatch == pc = "bridge" /\ k <= Len(family_photos) /\ m <= Len(photos)

FindMatching ==
  /\ MoreToMatch
  /\ LET family_photo == family_photos[k]
         photo == photos[m]
     IN \E o \in DetectOutcomes :
          LET r == count_faces(face_cache, photo, o)
          IN /\ Counted(photo, r)
             /\ IF eligible(r.ret)
                THEN \E v \in VerifyOutcomes(family_photo, photo) :
                       LET d == compare_faces(v)
                       IN /\ Verified(family_photo, photo, v)
                          /\ fails' = fails + (IF r.failed THEN 1 ELSE 0)
                                            + (IF v.ok THEN 0 ELSE 1)
                          /\ matching_individuals' =
                               IF Matches(d) THEN matching_individuals \cup {photo}
                               ELSE matching_individuals
                          /\ lastOp' = [NoOp EXCEPT !.op = "find_matching",
                               !.photo = family_photo, !.other = photo,
                               !.called = r.called, !.failed = r.failed, !.ret = r.ret,
                               !.cmpCalled = TRUE, !.cmpFailed = ~v.ok, !.d = d]
                ELSE /\ dist' = dist
                     /\ fails' = fails + (IF r.failed THEN 1 ELSE 0)
                     /\ matching_individuals' = matching_individuals
                     /\ lastOp' = [NoOp EXCEPT !.op = "find_matching",
                          !.photo = family_photo, !.other = photo,
                          !.called = r.called, !.failed = r.failed, !.ret = r.ret]
  /\ m' = m + 1
  /\ UNCHANGED <<photos, pc, individual_photos, family_photos, groups, current_group,
                 i, j, gi, mi, k, result, everLive, scanned, threadVars, routeVars, callVars>>

\* lines 107-110: the ids of the groups holding a matching individual, in dict order
groups_to_merge(g, matching) ==
  LET sel == SelectSeq(g, LAMBDA rec : Range(rec.photos) \cap matching # {})
  IN [x \in DOMAIN sel |-> sel[x].id]

\* lines 114-115: the family photo joins the first listed group
AddFamilyPhoto(g, id, p) ==
  LET x == IndexOf(g, id)
  IN IF p \in Range(g[x].photos) THEN g
     ELSE [g EXCEPT ![x].photos = Append(@, p)]

\* the last listed group taken as the target
target_group_Last(group_ids) == group_ids[Len(group_ids)]

\* the group the others are merged into, line 60
target_group(group_ids) == group_ids[1]

\* the photos collected without the update of line 65
merged_photos_OnlyTarget(g, group_ids) ==
  Range(g[IndexOf(g, target_group(group_ids))].photos)

\* the photos merge_groups collects, lines 61-65
merged_photos(g, group_ids) ==
  UNION {Range(g[IndexOf(g, group_ids[x])].photos) : x \in DOMAIN group_ids}

\* merge_groups emptying the merged groups instead of deleting them
merge_groups_KeepEmptied(g, group_ids, order) ==
  IF group_ids = <<>> THEN g
  ELSE LET target == target_group(group_ids)
           others == Range(group_ids) \ {target}
       IN [x \in DOMAIN g |->
             IF g[x].id = target THEN [g[x] EXCEPT !.photos = order]
             ELSE IF g[x].id \in others THEN [g[x] EXCEPT !.photos = <<>>]
             ELSE g[x]]

\* merge_groups, lines 55-69; order is the list made of the set at line 68
merge_groups(g, group_ids, order) ==
  IF group_ids = <<>> THEN g
  ELSE LET target == target_group(group_ids)
           others == Range(group_ids) \ {target}
           kept == SelectSeq(g, LAMBDA rec : rec.id \notin others)
       IN [kept EXCEPT ![IndexOf(kept, target)].photos = order]

\* ---- phase 3, lines 106-122: one family photo is placed ----
MatchingDone == pc = "bridge" /\ k <= Len(family_photos) /\ m > Len(photos)

Bridge ==
  /\ MatchingDone
  /\ LET family_photo == family_photos[k]
         gtm == groups_to_merge(groups, matching_individuals)
     IN IF gtm # <<>>
        THEN LET g1 == AddFamilyPhoto(groups, gtm[1], family_photo)
             IN /\ \E order \in ListsOfSet(merged_photos(g1, gtm)) :
                     groups' = merge_groups(g1, gtm, order)
                /\ current_group' = current_group
                /\ lastOp' = [NoOp EXCEPT !.op = "merge", !.photo = family_photo,
                                !.gid = gtm[1]]
        ELSE /\ groups' = NewGroup(groups, current_group, family_photo)
             /\ current_group' = NextGroupId(current_group)
             /\ lastOp' = [NoOp EXCEPT !.op = "create_family", !.photo = family_photo,
                             !.gid = current_group]
  /\ k' = k + 1 /\ m' = 1 /\ matching_individuals' = {}
  /\ everLive' = everLive \cup GroupIds(groups')
  /\ UNCHANGED <<photos, face_cache, dist, pc, individual_photos, family_photos,
                 i, j, gi, mi, result, detCalls, retVals, fails, scanned, threadVars, routeVars, callVars>>

\* ---- line 124 ----
BridgedAll == pc = "bridge" /\ k > Len(family_photos)

Return ==
  /\ BridgedAll
  /\ pc' = "done" /\ result' = groups
  /\ lastOp' = [NoOp EXCEPT !.op = "return"]
  /\ UNCHANGED <<photos, face_cache, dist, individual_photos, family_photos, groups,
                 current_group, i, j, gi, mi, k, m, matching_individuals, everLive,
                 detCalls, retVals, fails, scanned, threadVars, routeVars, callVars>>

Next ==
  \/ ClassifyIndividual
  \/ StartCluster
  \/ CompareIndividual
  \/ CreateIndividualGroup
  \/ FinishCluster
  \/ ClassifyFamily
  \/ StartBridge
  \/ FindMatching
  \/ Bridge
  \/ Return

Spec == Init /\ [][Next]_vars

\* ---- concurrent requests on the shared face_grouper (line 128) ----
\* Each thread serves one /analyze request (lines 179-198): count_faces on the
\* shared cache, with no lock between the test of line 15, the detection of
\* line 19 and the store of line 21.

\* the count a detection of p returns: the image does not change between calls
ThreadDetectOutcomes(p) ==
  LET storing == {u \in Threads : tpc[u] = "store" /\ tkey[u] = p}
      known == IF p \in DOMAIN face_cache THEN {face_cache[p]}
               ELSE {tret[u] : u \in storing}
  IN {[ok |-> TRUE, n |-> c] : c \in (IF known = {} THEN 0..MaxFaces ELSE known)}
       \cup (IF ~reliable /\ fails < MaxFail THEN {[ok |-> FALSE, n |-> 0]} ELSE {})

\* line 191: the request reaches count_faces(photo)
T_Request(t) ==
  /\ tpc[t] = "idle"
  /\ \E p \in PhotoIds : tkey' = [tkey EXCEPT ![t] = p]
  /\ tpc' = [tpc EXCEPT ![t] = "check"]
  /\ UNCHANGED <<tret, face_cache, detCalls, retVals, fails, grouperVars, routeVars, callVars>>

\* lines 15-16
T_Check(t) ==
  /\ tpc[t] = "check"
  /\ IF tkey[t] \in DOMAIN face_cache
     THEN /\ tret' = [tret EXCEPT ![t] = face_cache[tkey[t]]]
          /\ retVals' = [retVals EXCEPT ![tkey[t]] = @ \cup {face_cache[tkey[t]]}]
          /\ tpc' = [tpc EXCEPT ![t] = "done"]
     ELSE /\ tpc' = [tpc EXCEPT ![t] = "detect"]
          /\ UNCHANGED <<tret, retVals>>
  /\ UNCHANGED <<tkey, face_cache, detCalls, fails, grouperVars, routeVars, callVars>>

\* lines 19-20, and lines 23-25 when the detection throws
T_Detect(t) ==
  /\ tpc[t] = "detect"
  /\ \E o \in ThreadDetectOutcomes(tkey[t]) :
       IF o.ok
       THEN /\ tret' = [tret EXCEPT ![t] = o.n]
            /\ tpc' = [tpc EXCEPT ![t] = "store"]
            /\ UNCHANGED <<retVals, fails>>
       ELSE /\ tret' = [tret EXCEPT ![t] = 0]
            /\ retVals' = [retVals EXCEPT ![tkey[t]] = @ \cup {0}]
            /\ fails' = fails + 1
            /\ tpc' = [tpc EXCEPT ![t] = "done"]
  /\ detCalls' = [detCalls EXCEPT ![tkey[t]] = @ + 1]
  /\ UNCHANGED <<tkey, face_cache, grouperVars, routeVars, callVars>>

\* lines 21-22
T_Store(t) ==
  /\ tpc[t] = "store"
  /\ face_cache' = IF tkey[t] \in DOMAIN face_cache
                   THEN [face_cache EXCEPT ![tkey[t]] = tret[t]]
                   ELSE face_cache @@ (tkey[t] :> tret[t])
  /\ retVals' = [retVals EXCEPT ![tkey[t]] = @ \cup {tret[t]}]
  /\ tpc' = [tpc EXCEPT ![t] = "done"]
  /\ UNCHANGED <<tkey, tret, detCalls, fails, grouperVars, routeVars, callVars>>

NextConc == \E t \in Threads : T_Request(t) \/ T_Check(t) \/ T_Detect(t) \/ T_Store(t)

SpecConc == Init /\ [][NextConc]_vars

\* ---- the /group route, lines 138-176 ----
\* the requests: a photo list, possibly empty, any of its photos possibly missing
RequestLists == PhotoLists(MaxLen) \cup {<<>>}

InitRoute ==
  /\ photos \in RequestLists
  /\ exists \in SUBSET Range(photos)
  /\ reliable = FALSE
  /\ pc = "request"
  /\ ProcessStart
  /\ CallEntry

\* the test of line 145 never rejecting
empty_request_Never(ph) == Len(ph) < 0

\* the test of line 145
empty_request(ph) == Len(ph) < 1

\* lines 145-146
CheckEmpty ==
  /\ pc = "request"
  /\ IF empty_request(photos)
     THEN pc' = "rejected" /\ status' = 400
     ELSE pc' = "validate" /\ status' = status
  /\ vx' = 1
  /\ lastOp' = [NoOp EXCEPT !.op = "check_empty"]
  /\ UNCHANGED <<photos, face_cache, dist, individual_photos, family_photos, groups,
                 current_group, i, j, gi, mi, k, m, matching_individuals, result,
                 everLive, detCalls, retVals, fails, scanned, threadVars,
                 exists, group_metadata, gx, ps, mx, acc, callVars>>

\* lines 149-151: one iteration of the existence check
ValidatePhoto ==
  /\ pc = "validate" /\ vx <= Len(photos)
  /\ IF photos[vx] \in exists
     THEN pc' = pc /\ status' = status /\ vx' = vx + 1
     ELSE pc' = "rejected" /\ status' = 404 /\ vx' = vx
  /\ lastOp' = [NoOp EXCEPT !.op = "validate", !.photo = photos[vx]]
  /\ UNCHANGED <<photos, face_cache, dist, individual_photos, family_photos, groups,
                 current_group, i, j, gi, mi, k, m, matching_individuals, result,
                 everLive, detCalls, retVals, fails, scanned, threadVars,
                 exists, group_metadata, gx, ps, mx, acc, callVars>>

\* line 154: face_grouper.group_photos(photos) is entered
CallCore ==
  /\ pc = "validate" /\ vx > Len(photos)
  /\ pc' = "classify_individuals"
  /\ lastOp' = [NoOp EXCEPT !.op = "call_core"]
  /\ UNCHANGED <<photos, face_cache, dist, individual_photos, family_photos, groups,
                 current_group, i, j, gi, mi, k, m, matching_individuals, result,
                 everLive, detCalls, retVals, fails, scanned, threadVars,
                 routeVars, callVars>>

\* lines 157-158: the loop over the groups starts
StartMetadata ==
  /\ pc = "done"
  /\ pc' = "metadata"
  /\ group_metadata' = <<>> /\ gx' = 1 /\ ps' = 1 /\ mx' = 1 /\ acc' = NoSums
  /\ lastOp' = [NoOp EXCEPT !.op = "start_metadata"]
  /\ UNCHANGED <<photos, face_cache, dist, individual_photos, family_photos, groups,
                 current_group, i, j, gi, mi, k, m, matching_individuals, result,
                 everLive, detCalls, retVals, fails, scanned, threadVars,
                 exists, status, vx, callVars>>

\* the test of line 162
individual_test(count) == ~is_family_photo(count)

\* the test of line 164 counting every photo with a face
member_test_AnyFace(count) == count >= 1

\* the test of line 164
member_test(count) == ~is_family_photo(count)

\* the sums after the photo of count c is seen by dict entry e
Summed(a, e, c) ==
  CASE e = 1 -> [a EXCEPT !.family_photos = @ + (IF is_family_photo(c) THEN 1 ELSE 0)]
    [] e = 2 -> [a EXCEPT !.individual_photos = @ + (IF individual_test(c) THEN 1 ELSE 0)]
    [] OTHER -> [a EXCEPT !.members = @ + (IF member_test(c) THEN 1 ELSE 0)]

\* lines 159-165: the entry of one group
Described(g, a) ==
  [id |-> g.id, photos |-> g.photos, family_photos |-> a.family_photos,
   individual_photos |-> a.individual_photos, total_photos |-> Len(g.photos),
   members |-> a.members]

\* lines 161, 162, 164: one is_family_photo call of one of the three counts
MetadataStep ==
  /\ pc = "metadata" /\ gx <= Len(result)
  /\ \E o \in DetectOutcomes :
       LET group == result[gx]
           p == group.photos[mx]
           r == count_faces(face_cache, p, o)
           a == Summed(acc, ps, r.ret)
       IN /\ Counted(p, r)
          /\ fails' = fails + (IF r.failed THEN 1 ELSE 0)
          /\ lastOp' = [NoOp EXCEPT !.op = "metadata", !.photo = p, !.gid = group.id,
                          !.called = r.called, !.failed = r.failed, !.ret = r.ret]
          /\ IF mx < Len(group.photos)
             THEN /\ mx' = mx + 1 /\ ps' = ps /\ gx' = gx /\ acc' = a
                  /\ group_metadata' = group_metadata
             ELSE IF ps < 3
             THEN /\ mx' = 1 /\ ps' = ps + 1 /\ gx' = gx /\ acc' = a
                  /\ group_metadata' = group_metadata
             ELSE /\ mx' = 1 /\ ps' = 1 /\ gx' = gx + 1 /\ acc' = NoSums
                  /\ group_metadata' = Append(group_metadata, Described(group, a))
  /\ UNCHANGED <<photos, dist, pc, individual_photos, family_photos, groups,
                 current_group, i, j, gi, mi, k, m, matching_individuals, result,
                 everLive, scanned, threadVars, exists, status, vx, callVars>>

\* lines 167-172
Respond ==
  /\ pc = "metadata" /\ gx > Len(result)
  /\ pc' = "responded" /\ status' = 200
  /\ lastOp' = [NoOp EXCEPT !.op = "respond"]
  /\ UNCHANGED <<photos, face_cache, dist, individual_photos, family_photos, groups,
                 current_group, i, j, gi, mi, k, m, matching_individuals, result,
                 everLive, detCalls, retVals, fails, scanned, threadVars,
                 exists, vx, group_metadata, gx, ps, mx, acc, callVars>>

NextRoute ==
  \/ CheckEmpty
  \/ ValidatePhoto
  \/ CallCore
  \/ Next
  \/ StartMetadata
  \/ MetadataStep
  \/ Respond

SpecRoute == InitRoute /\ [][NextRoute]_vars

\* the face count the analyzer found for p (0 while no detection of p succeeded)
FaceCount(p) == IF p \in DOMAIN face_cache THEN face_cache[p] ELSE 0

\* ---- group_photos called twice by one process, the analyzer never throwing ----
InitPerm ==
  /\ photos \in PhotoLists(MaxLen)
  /\ exists = Range(photos)
  /\ reliable = TRUE
  /\ pc = "classify_individuals"
  /\ ProcessStart
  /\ CallEntry

\* the photos of the list that line 76 keeps, in list order
IndividualsOf(ph) == SelectSeq(ph, LAMBDA p : individual_filter(FaceCount(p)))

\* the photos of the list that line 99 keeps, in list order
FamiliesOf(ph) == SelectSeq(ph, LAMBDA p : family_filter(FaceCount(p)))

\* the other orders of the list: its family photos change places with each
\* other, every other photo stays where it is
Reorderings(ph) ==
  {s \in [DOMAIN ph -> Range(ph)] :
     /\ s # ph
     /\ \A x \in DOMAIN ph : ~family_filter(FaceCount(ph[x])) => s[x] = ph[x]
     /\ \A p \in Range(ph) :
          Cardinality({x \in DOMAIN s : s[x] = p}) = Cardinality({x \in DOMAIN ph : ph[x] = p})}

\* the set of member sets of a returned dict
PartitionOf(g) == {Range(g[x].photos) : x \in DOMAIN g}

\* lines 72-73 entered a second time, with the same photos in another order
Regroup ==
  /\ pc = "done" /\ run = 1
  /\ photos' \in Reorderings(photos)
  /\ firstPhotos' = photos /\ firstPartition' = PartitionOf(result)
  /\ run' = 2
  /\ pc' = "classify_individuals"
  /\ individual_photos' = <<>> /\ family_photos' = <<>>
  /\ groups' = <<>> /\ current_group' = 0
  /\ i' = 1 /\ j' = 1 /\ gi' = 1 /\ mi' = 1 /\ k' = 1 /\ m' = 1
  /\ matching_individuals' = {} /\ result' = <<>>
  /\ everLive' = {} /\ scanned' = <<>>
  /\ lastOp' = [NoOp EXCEPT !.op = "regroup"]
  /\ UNCHANGED <<face_cache, dist, detCalls, retVals, fails, threadVars, routeVars,
                 reliable>>

NextPerm ==
  \/ Next
  \/ Regroup

SpecPerm == InitPerm /\ [][NextPerm]_vars

\* ---- what the claims speak of ----

\* some detection of p threw
Threw(p) == detCalls[p] > (IF p \in DOMAIN face_cache THEN 1 ELSE 0)

RECURSIVE SumLen(_)
SumLen(g) == IF g = <<>> THEN 0 ELSE Len(Head(g).photos) + SumLen(Tail(g))

Retired == everLive \ GroupIds(groups)

\* C1: in every state no photo is a member of two live groups, and in the
\* result every input photo whose face count is 1 or more is a member of
\* exactly one live group.
C1_Partition ==
  /\ \A p \in PhotoIds : Cardinality(GroupsOf(groups, p)) <= 1
  /\ pc = "done" =>
       \A p \in Range(photos) :
          FaceCount(p) >= 1 => Cardinality(GroupsOf(result, p)) = 1

\* C2: in the result every family photo shares a group with every individual
\* photo of the input at distance <= threshold of it; and for [A, B, F] with A, B
\* individuals that do not match and F matching both, the result is one
\* group with members {A, B, F}.
C2_FamilyJoinsMatches ==
  pc = "done" =>
    /\ \A f \in Range(photos), x \in Range(photos) :
         ( /\ FaceCount(f) > 1 /\ FaceCount(x) = 1
           /\ {f, x} \in DOMAIN dist /\ dist[{f, x}] <= Threshold )
           => GroupsOf(result, f) \cap GroupsOf(result, x) # {}
    /\ ( /\ photos = <<1, 2, 3>>
         /\ FaceCount(1) = 1 /\ FaceCount(2) = 1 /\ FaceCount(3) > 1
         /\ {{1, 2}, {1, 3}, {2, 3}} \subseteq DOMAIN dist
         /\ dist[{1, 2}] > Threshold
         /\ dist[{1, 3}] <= Threshold /\ dist[{2, 3}] <= Threshold )
       => (Len(result) = 1 /\ Range(result[1].photos) = {1, 2, 3})

\* C3: for every photo the analyzer's detection is invoked at most once and
\* every count_faces call on it returns the same value, a failed detection
\* included (its 0 is stored).
C3_DetectOnce ==
  /\ \A p \in PhotoIds : detCalls[p] <= 1 /\ Cardinality(retVals[p]) <= 1
  /\ lastOp.failed =>
       LET p == IF lastOp.op = "find_matching" THEN lastOp.other ELSE lastOp.photo
       IN p \in DOMAIN face_cache /\ face_cache[p] = 0

\* C4 as written: when the face counting throws for X, group([X]) returns X
\* alone in its own group.
C4_FailedPhotoGrouped ==
  (pc = "done" /\ Len(photos) = 1 /\ Threw(photos[1]))
    => (Len(result) = 1 /\ result[1].photos = <<photos[1]>>)

\* C4 (amended): when the face counting throws for X, group([X]) returns an
\* empty result, unless a later detection of X in the same call finds more than
\* one face, and then X is alone in the group of id 0.
C4_FailedPhotoDropped ==
  (pc = "done" /\ Len(photos) = 1 /\ Threw(photos[1]))
    => IF FaceCount(photos[1]) > 1
       THEN result = <<[id |-> 0, photos |-> <<photos[1]>>]>>
       ELSE result = <<>>

C4_Witness ==
  /\ pc = "done" /\ Len(photos) = 1 /\ Threw(photos[1])
  /\ FaceCount(photos[1]) = 1 /\ result = <<>>

\* C5: group ids come from a counter that starts at 0 and only grows; a group
\* that is created gets an id that was never a key before, and an id that was
\* retired by a merge is never a key again, in no later state and not in the
\* result.
C5_FreshIds ==
  [][LET new == GroupIds(groups') \ GroupIds(groups)
     IN /\ current_group' >= current_group
        /\ \A id \in new : /\ id \notin everLive
                           /\ id = current_group /\ current_group' = id + 1
                           /\ \A e \in everLive : e < id
                           /\ everLive = {} => id = 0
        /\ Len(groups') > Len(groups) => new # {}
        /\ Retired \cap GroupIds(groups') = {}
        /\ pc' = "done" => GroupIds(result') \cap (Retired \cup new) = {}]_vars

C5_Witness ==
  /\ Retired # {}
  /\ lastOp.op = "create_family"
  /\ lastOp.gid \notin Retired /\ lastOp.gid \in GroupIds(groups)

\* the step appends the current individual to the group at index x
Joins(x) ==
  /\ pc = "cluster" /\ j <= Len(individual_photos)
  /\ x \in DOMAIN groups /\ Len(groups') = Len(groups)
  /\ groups'[x].photos = Append(groups[x].photos, individual_photos[j])

\* C6: an individual joins a group only on a comparison <= threshold with a
\* member of it, made after every member of every lower-id live group was
\* compared with it and was above the threshold; no member of a higher-id
\* group was compared, and no comparison for it follows.
C6_FirstMatch ==
  [][\A x \in DOMAIN groups :
       Joins(x) =>
         /\ lastOp'.d <= Threshold
         /\ lastOp'.photo = individual_photos[j]
         /\ lastOp'.gid = groups[x].id
         /\ lastOp'.other \in Range(groups[x].photos)
         /\ \A y \in DOMAIN groups : groups[y].id < groups[x].id <=> y < x
         /\ \A e \in Range(scanned) : e.d > Threshold /\ e.gid <= groups[x].id
         /\ \A y \in 1..(x - 1) :
              \A z \in DOMAIN groups[y].photos :
                 \E e \in Range(scanned) :
                    e.gid = groups[y].id /\ e.member = groups[y].photos[z]
         /\ Len(scanned) >= SumLen(SubSeq(groups, 1, x - 1))
         /\ j' = j + 1 /\ scanned' = <<>>
         /\ \A y \in DOMAIN groups : y # x => groups'[y] = groups[y]]_vars

C6_Witness ==
  /\ lastOp.op = "compare_individual" /\ lastOp.d <= Threshold
  /\ lastOp.gid = 0 /\ lastOp.photo \in Range(groups[1].photos)
  /\ Len(groups) >= 2 /\ lastOp.photo \notin Range(groups[2].photos)

\* C7: in both phases a comparison equal to the threshold is a match and one
\* above it is not: in phase 2 the individual is appended to the group exactly
\* when the distance is <= threshold, in phase 3 the individual enters the
\* matching set exactly when the distance is <= threshold.
C7_Inclusive ==
  [][/\ lastOp'.op = "compare_individual" =>
          LET x == IndexOf(groups, lastOp'.gid)
          IN IF lastOp'.d <= Threshold
             THEN groups' = [groups EXCEPT ![x].photos = Append(@, lastOp'.photo)]
             ELSE groups' = groups /\ j' = j
     /\ (lastOp'.op = "find_matching" /\ lastOp'.cmpCalled) =>
          IF lastOp'.d <= Threshold
          THEN matching_individuals' = matching_individuals \cup {lastOp'.other}
          ELSE matching_individuals' = matching_individuals]_vars

C7_Witness ==
  /\ lastOp.op = "find_matching" /\ lastOp.cmpCalled
  /\ lastOp.d = Threshold /\ lastOp.other \in matching_individuals
  /\ \E x \in DOMAIN groups :
       \E a \in Range(groups[x].photos), b \in Range(groups[x].photos) :
          a # b /\ {a, b} \in DOMAIN dist /\ dist[{a, b}] = Threshold
  /\ \E pr \in DOMAIN dist : dist[pr] = Threshold + 1

\* the step appends a new group holding only p, under an id never used before
CreatesFresh(p) ==
  /\ Len(groups') = Len(groups) + 1
  /\ SubSeq(groups', 1, Len(groups)) = groups
  /\ groups'[Len(groups')].photos = <<p>>
  /\ groups'[Len(groups')].id \notin everLive

\* C8: an individual whose comparisons with every member of every live group
\* were above the threshold, and a family photo none of whose matching
\* individuals is in a live group, becomes a new group holding only it, under
\* an id that was never a key before, and no other group changes.
C8_NoMatchIsolated ==
  [][/\ ( /\ pc = "cluster" /\ j <= Len(individual_photos)
          /\ Len(scanned) = SumLen(groups)
          /\ \A e \in Range(scanned) : e.d > Threshold )
        => CreatesFresh(individual_photos[j])
     /\ ( /\ pc = "bridge" /\ k <= Len(family_photos) /\ m > Len(photos)
          /\ \A x \in DOMAIN groups :
                Range(groups[x].photos) \cap matching_individuals = {} )
        => CreatesFresh(family_photos[k])]_vars

C8_Witness ==
  /\ lastOp.op = "create_family" /\ Len(groups) >= 2
  /\ groups[Len(groups)].photos = <<lastOp.photo>>
  /\ \E pr \in DOMAIN dist : lastOp.photo \in pr /\ dist[pr] > Threshold
  /\ \E x \in DOMAIN groups : Len(groups[x].photos) >= 2

\* C9: two requests never run the detection of the same photo at the same
\* time (between the cache test and the store), and the count a request
\* obtained is the one the cache holds.
C9_NoDuplicateDetection ==
  /\ \A t \in Threads, u \in Threads :
       (t # u /\ tkey[t] = tkey[u])
         => ~(tpc[t] \in {"detect", "store"} /\ tpc[u] \in {"detect", "store"})
  /\ \A t \in Threads :
       (tpc[t] = "done" /\ tret[t] > 0)
         => (tkey[t] \in DOMAIN face_cache /\ face_cache[tkey[t]] = tret[t])

\* where group_photos stands: the phase, then the loop indices, outermost first
Position ==
  << CASE pc = "classify_individuals" -> 0
       [] pc = "cluster" -> 1
       [] pc = "classify_families" -> 2
       [] pc = "bridge" -> 3
       [] OTHER -> 4,
     i, j, gi, mi, k, m >>

RECURSIVE LexLess(_, _)
LexLess(a, b) ==
  /\ a # <<>>
  /\ \/ Head(a) < Head(b)
     \/ Head(a) = Head(b) /\ LexLess(Tail(a), Tail(b))

\* C10: a detection that throws gives the count 0 (not a family photo, the
\* photo enters no list), a comparison that throws gives a distance above
\* the threshold (no append, no match), and group_photos reaches its return
\* whatever the analyzer's failures: before the return the guard of some
\* step holds and the analyzer has an outcome for it, every step moves the position forward in the lexicographic
\* order, and the loop indices are bounded by the lengths of their lists.
C10_Absorbed ==
  /\ [](\/ pc = "done"
        \/ MoreToClassify /\ DetectOutcomes # {}
        \/ ClassifiedAll
        \/ /\ MoreToScan /\ mi \in DOMAIN groups[gi].photos
           /\ VerifyOutcomes(individual_photos[j], groups[gi].photos[mi]) # {}
        \/ ScanOver
        \/ ClusteredAll
        \/ MoreFamiliesToClassify /\ DetectOutcomes # {}
        \/ FamiliesClassified
        \/ /\ MoreToMatch /\ DetectOutcomes # {}
           /\ VerifyOutcomes(family_photos[k], photos[m]) # {}
        \/ MatchingDone
        \/ BridgedAll)
  /\ [](/\ i \in 1..(Len(photos) + 1) /\ m \in 1..(Len(photos) + 1)
        /\ j \in 1..(Len(individual_photos) + 1)
        /\ k \in 1..(Len(family_photos) + 1)
        /\ gi \in 1..(Len(groups) + 1) /\ mi \in 1..(Len(photos) + 1)
        /\ Len(individual_photos) <= Len(photos)
        /\ Len(family_photos) <= Len(photos)
        /\ Len(groups) <= Len(photos))
  /\ [][/\ LexLess(Position, Position')
        /\ lastOp'.failed =>
             /\ lastOp'.ret = 0 /\ ~is_family_photo(lastOp'.ret)
             /\ individual_photos' = individual_photos
             /\ family_photos' = family_photos
             /\ matching_individuals' = matching_individuals
        /\ lastOp'.cmpFailed =>
             /\ lastOp'.d = Inf /\ lastOp'.d > Threshold
             /\ groups' = groups
             /\ matching_individuals' = matching_individuals]_vars

C10_Witness ==
  /\ pc = "done" /\ fails > 0 /\ result # <<>>
  /\ \E p \in Range(photos) : Threw(p)

MinOf(S) == CHOOSE x \in S : \A y \in S : x <= y

MembersOf(g, ids) == UNION {Range(g[x].photos) : x \in {y \in DOMAIN g : g[y].id \in ids}}

\* the ids of the live groups holding a matching individual
Bridged == {groups[x].id : x \in {y \in DOMAIN groups :
                Range(groups[y].photos) \cap matching_individuals # {}}}

\* C14: when a family photo F is placed and some live group holds a matching
\* individual, groups_to_merge lists exactly those groups in ascending id
\* order; afterwards the lowest of them holds F and every member of every
\* listed group, the other listed groups are deleted, and every group that
\* is not listed is as it was.
C14_MergeFrame ==
  [][(MatchingDone /\ Bridged # {}) =>
       LET gtm == groups_to_merge(groups, matching_individuals)
           lo == MinOf(Bridged)
       IN /\ Range(gtm) = Bridged /\ gtm[1] = lo
          /\ \A x \in DOMAIN gtm, y \in DOMAIN gtm : x < y => gtm[x] < gtm[y]
          /\ \A x \in DOMAIN groups, y \in DOMAIN groups :
                x < y => groups[x].id < groups[y].id
          /\ GroupIds(groups') = GroupIds(groups) \ (Bridged \ {lo})
          /\ Len(groups') = Cardinality(GroupIds(groups'))
          /\ MembersOf(groups', {lo}) = MembersOf(groups, Bridged) \cup {family_photos[k]}
          /\ \A x \in DOMAIN groups :
                groups[x].id \notin Bridged =>
                   \E y \in DOMAIN groups' : groups'[y] = groups[x]
          /\ current_group' = current_group]_vars

C14_Witness ==
  /\ lastOp.op = "merge" /\ lastOp.gid = 0
  /\ Retired = {2} /\ GroupIds(groups) = {0, 1}
  /\ Len(groups[1].photos) = 3 /\ Len(groups[2].photos) = 1

\* C15: no live group's member list holds the same photo twice, in any state
\* and in the result.
C15_DuplicateFree ==
  /\ \A x \in DOMAIN groups :
        Cardinality(Range(groups[x].photos)) = Len(groups[x].photos)
  /\ \A x \in DOMAIN result :
        Cardinality(Range(result[x].photos)) = Len(result[x].photos)

\* C16: every member of every group, in every state and in the result, is an
\* input photo whose face count is at least 1; a photo whose face count is 0
\* (no detection of it succeeded, or one found no face) is in no group.
C16_NoEmptyInGroups ==
  /\ \A x \in DOMAIN groups : \A p \in Range(groups[x].photos) :
        p \in Range(photos) /\ FaceCount(p) >= 1
  /\ \A x \in DOMAIN result : \A p \in Range(result[x].photos) :
        p \in Range(photos) /\ FaceCount(p) >= 1
  /\ pc = "done" =>
        \A p \in Range(photos) : FaceCount(p) = 0 => GroupsOf(result, p) = {}

C16_Witness ==
  /\ pc = "done" /\ result # <<>>
  /\ \E p \in Range(photos) :
        /\ Threw(p) /\ p \in DOMAIN face_cache /\ face_cache[p] = 0
        /\ GroupsOf(result, p) = {}

\* C17: in phase 3 the candidate is the next photo of the input list, the
\* comparison is made exactly when its face count is 1, and then it is
\* between a photo with more than one face and a photo with exactly one.
C17_OnlyFamilyToIndividual ==
  [][lastOp'.op = "find_matching" =>
       /\ MoreToMatch
       /\ lastOp'.photo = family_photos[k] /\ lastOp'.other = photos[m]
       /\ lastOp'.cmpCalled <=> lastOp'.ret = 1
       /\ lastOp'.cmpCalled =>
            /\ lastOp'.photo \in DOMAIN face_cache' /\ face_cache'[lastOp'.photo] > 1
            /\ lastOp'.other \in DOMAIN face_cache' /\ face_cache'[lastOp'.other] = 1
       /\ ~lastOp'.cmpCalled => dist' = dist /\ matching_individuals' = matching_individuals]_vars

C17_Witness ==
  /\ lastOp.op = "find_matching" /\ lastOp.cmpCalled
  /\ GroupsOf(groups, lastOp.other) = {}
  /\ lastOp.d <= Threshold /\ lastOp.other \in matching_individuals

\* C18: every photo that phase 3 finds eligible (face count 1 in
\* find_matching_individuals) is in the individual list of phase 1 and is a
\* member of exactly one live group at that moment.
C18_StableClassification ==
  (lastOp.op = "find_matching" /\ lastOp.ret = 1) =>
     /\ lastOp.other \in Range(individual_photos)
     /\ Cardinality(GroupsOf(groups, lastOp.other)) = 1

\* C19: no live group is empty, in any state and in the result, and a live
\* group without an individual photo is a single family photo.
C19_NoEmptyGroup ==
  \A g \in {groups, result} : \A x \in DOMAIN g :
     /\ g[x].photos # <<>>
     /\ (\A p \in Range(g[x].photos) : FaceCount(p) # 1) =>
           (Len(g[x].photos) = 1 /\ FaceCount(g[x].photos[1]) > 1)

C19_Witness ==
  /\ pc = "done" /\ Retired # {}
  /\ \E x \in DOMAIN result : \A p \in Range(result[x].photos) : FaceCount(p) # 1
  /\ \E x \in DOMAIN result :
        /\ Len(result[x].photos) >= 3
        /\ \E p \in Range(result[x].photos) : FaceCount(p) > 1

\* how many photos of the list are family photos (family) or are not
RECURSIVE CountIf(_, _)
CountIf(ph, family) ==
  IF ph = <<>> THEN 0
  ELSE (IF (FaceCount(Head(ph)) > 1) = family THEN 1 ELSE 0) + CountIf(Tail(ph), family)

\* C12: every group entry of the /group response has members equal to
\* individual_photos and family_photos + individual_photos equal to
\* total_photos, family_photos being the number of members with more than one
\* face and individual_photos the number of the others; the response has one
\* entry per group of the result.
C12_MetadataCounts ==
  /\ \A x \in DOMAIN group_metadata :
       LET e == group_metadata[x]
       IN /\ e.members = e.individual_photos
          /\ e.family_photos + e.individual_photos = e.total_photos
          /\ e.total_photos = Len(e.photos)
          /\ e.family_photos = CountIf(e.photos, TRUE)
          /\ e.individual_photos = CountIf(e.photos, FALSE)
          /\ e.id = result[x].id /\ e.photos = result[x].photos
  /\ pc = "responded" => (status = 200 /\ Len(group_metadata) = Len(result))

C12_Witness ==
  /\ pc = "responded" /\ Len(group_metadata) >= 2
  /\ \E x \in DOMAIN group_metadata :
        group_metadata[x].family_photos >= 1 /\ group_metadata[x].members >= 2
  /\ fails > 0

\* C13: a request with no photos is answered with status 400 and never
\* reaches group_photos or the analyzer, and group_photos is entered only for
\* a non-empty list after every listed photo passed the existence check.
C13_RejectedBeforeCore ==
  /\ pc \notin {"request", "validate", "rejected"} =>
        (photos # <<>> /\ Range(photos) \subseteq exists /\ vx > Len(photos))
  /\ photos = <<>> =>
        (pc \in {"request", "rejected"} /\ (pc = "rejected" => status = 400))
  /\ pc = "rejected" =>
        /\ status \in {400, 404}
        /\ status = 404 => photos[vx] \notin exists
        /\ groups = <<>> /\ result = <<>> /\ face_cache = <<>>
        /\ \A p \in PhotoIds : detCalls[p] = 0

C13_Witness ==
  /\ pc = "rejected" /\ photos = <<>> /\ status = 400

\* C11: with face counts and distances fixed, grouping the same photos again
\* in an order that keeps the relative order of the individual photos returns
\* the same set of member sets as the first grouping; only ids may differ.
C11_SamePartition ==
  (run = 2 /\ pc = "done") => PartitionOf(result) = firstPartition

C11_Witness ==
  /\ run = 2 /\ pc = "done"
  /\ FamiliesOf(photos) # FamiliesOf(firstPhotos)
  /\ Len(result) = 1 /\ Cardinality(firstPartition) = 1
  /\ \E a, b \in Range(IndividualsOf(photos)) :
       /\ a # b /\ {a, b} \in DOMAIN dist /\ ~Matches(dist[{a, b}])
       /\ {a, b} \subseteq Range(result[1].photos)
  /\ Cardinality(Range(FamiliesOf(photos)) \cap Range(result[1].photos)) = 2
====
